---- MODULE Spec2Model ----
(***************************************************************************)
(* LCV route allocation dashboard (src/app.py).                            *)
(*                                                                         *)
(* Two pure functions carry the logic of the program:                      *)
(*   classify_lcvs_equally  seeded shuffle of the distinct vehicle ids,    *)
(*                          split into three stages;                       *)
(*   allocate_lcv_to_route  primary pass (longest route first, pool FIFO), *)
(*                          secondary pass (more than 7 rows: shortest     *)
(*                          pending route first, vehicles of other stages),*)
(*                          final cleanup of the pending marker.           *)
(* The script below them wires the two together (stage lists, the stage    *)
(* selectbox, the selection of rows by Request_id).                        *)
(*                                                                         *)
(* Python values are modelled as follows.  A list is a sequence.  A dict   *)
(* is a sequence of <<key, value>> pairs in insertion order with distinct  *)
(* keys (Python dicts iterate in insertion order, and the code relies on   *)
(* .items()).  A DataFrame is a sequence of row records.  Vehicle ids are  *)
(* opaque strings, NaN is the null id.  The en dash of two stage names is  *)
(* written as a hyphen.                                                    *)
(***************************************************************************)
EXTENDS Integers, Sequences, FiniteSets, TLC

VARIABLES
    pc,                 \* "idle", "classified" (classify returned), "allocated" (allocate returned)
    rng_state,          \* hidden global state of Python's random module
    lcv_ids,            \* argument of classify_lcvs_equally: a column of ids
    seed,               \* argument of classify_lcvs_equally
    classification,     \* dict returned by classify_lcvs_equally
    selected_data,                  \* argument of allocate_lcv_to_route
    available_lcvs_in_stage,        \* argument of allocate_lcv_to_route
    all_lcv_stages_classification,  \* argument of allocate_lcv_to_route
    selected_stage_name,            \* argument of allocate_lcv_to_route
    primary_allocations,  \* the list `allocations` when the primary loop ends (line 76)
    allocation_result     \* the returned table (line 111)

vars == <<pc, rng_state, lcv_ids, seed, classification, selected_data,
          available_lcvs_in_stage, all_lcv_stages_classification,
          selected_stage_name, primary_allocations, allocation_result>>

classifyVars == <<lcv_ids, seed, classification>>
allocateVars == <<selected_data, available_lcvs_in_stage, all_lcv_stages_classification,
                  selected_stage_name, primary_allocations, allocation_result>>

----------------------------------------------------------------------------
(* Bounds of the model *)

MaxLcv == 4          \* number of distinct vehicle ids
MaxCol == 4          \* length of the lcv_id column handed to the classifier
MaxSeed == 2         \* seeds 1..MaxSeed
RngModulus == 8      \* size of the generator's state space
MaxMapLcv == 2       \* vehicles in the stage map of a direct call of the allocator

LcvNames == <<"L1", "L2", "L3", "L4", "L5", "L6">>
Lcvs == {LcvNames[i] : i \in 1..MaxLcv}
NaN == "NaN"
NoSeed == 0 - 1      \* seed=None
Seeds == 1..MaxSeed
RngStates == 0..(RngModulus - 1)

----------------------------------------------------------------------------
(* Sequences *)

Range(s) == {s[i] : i \in 1..Len(s)}

RECURSIVE SeqsUpTo(_, _)
SeqsUpTo(S, n) ==
    IF n = 0 THEN {<<>>}
    ELSE LET shorter == SeqsUpTo(S, n - 1)
         IN  shorter \cup {Append(s, x) : s \in {t \in shorter : Len(t) = n - 1}, x \in S}

\* the lists obtained from s by dropping elements (the order is kept)
RECURSIVE SubLists(_)
SubLists(s) ==
    IF s = <<>> THEN {<<>>}
    ELSE LET rest == SubLists(Tail(s))
         IN  rest \cup {<<Head(s)>> \o t : t \in rest}

Swap(x, i, j) == [x EXCEPT ![i] = x[j], ![j] = x[i]]

----------------------------------------------------------------------------
(* classify_lcvs_equally *)

stages == <<"Empty - Waiting Area", "Filling - Safe Zone",
            "Filled - Waiting Area/Moving to DBS">>

\* lcv_ids.unique(): the distinct values in order of first appearance (NaN included once)
RECURSIVE PdUnique(_)
PdUnique(col) ==
    IF col = <<>> THEN <<>>
    ELSE LET front == PdUnique(SubSeq(col, 1, Len(col) - 1))
             last == col[Len(col)]
         IN  IF last \in Range(front) THEN front ELSE Append(front, last)

\* [lcv for lcv in lcv_ids.unique() if pd.notna(lcv)]
UniqueLcvsKeepNaN(col) == PdUnique(col)
UniqueLcvs(col) == SelectSeq(PdUnique(col), LAMBDA lcv : lcv /= NaN)

\* random.seed(seed): the generator's state becomes a function of the seed alone
RandomSeed(s) == s % RngModulus

\* one draw: the generator steps, and the draw is a function of the new state.
\* The library's generator is a deterministic function of its state; a small
\* full-period congruential generator stands for it.  At start-up the state comes
\* from the operating system, so Init leaves it open.
RngStep(r) == (5 * r + 3) % RngModulus
RandBelow(r, k) == RngStep(r) % k

\* `if seed is not None: random.seed(seed)`
SeededStateNever(s, r) == r
SeededState(s, r) == IF s /= NoSeed THEN RandomSeed(s) ELSE r

\* random.shuffle(x): for i in reversed(range(1, len(x))): j = randbelow(i + 1); x[i], x[j] = x[j], x[i]
\* (i is the 0-based index).  Returns the shuffled list and the generator's state.
RECURSIVE ShuffleFrom(_, _, _)
ShuffleFrom(x, r, i) ==
    IF i < 1 THEN [list |-> x, rng |-> r]
    ELSE LET j == RandBelow(r, i + 1)
         IN  ShuffleFrom(Swap(x, i + 1, j + 1), RngStep(r), i - 1)

RandomShuffle(x, r) == ShuffleFrom(x, r, Len(x) - 1)

\* np.array_split(ary, 3): the first len % 3 sections have len // 3 + 1 elements, the rest len // 3
SectionSizeCeil(n, i) == IF i * ((n + 2) \div 3) <= n THEN (n + 2) \div 3
                         ELSE IF (i - 1) * ((n + 2) \div 3) >= n THEN 0
                         ELSE n - (i - 1) * ((n + 2) \div 3)
SectionSize(n, i) == IF i <= n % 3 THEN n \div 3 + 1 ELSE n \div 3

RECURSIVE SectionStart(_, _)
SectionStart(n, i) == IF i = 1 THEN 1 ELSE SectionStart(n, i - 1) + SectionSize(n, i - 1)

ArraySplit(ary) ==
    [i \in 1..3 |-> SubSeq(ary, SectionStart(Len(ary), i),
                           SectionStart(Len(ary), i) + SectionSize(Len(ary), i) - 1)]

\* d[key] = value on an insertion-ordered dict
DictKeys(d) == [i \in 1..Len(d) |-> d[i][1]]
DictHas(d, key) == \E i \in 1..Len(d) : d[i][1] = key
DictGet(d, key) == d[CHOOSE i \in 1..Len(d) : d[i][1] = key][2]
DictSet(d, key, value) ==
    IF DictHas(d, key)
    THEN [i \in 1..Len(d) |-> IF d[i][1] = key THEN <<key, value>> ELSE d[i]]
    ELSE Append(d, <<key, value>>)

\* for lcv_id in lcv_splits[i]: classification[lcv_id] = stage
RECURSIVE AssignStage(_, _, _)
AssignStage(d, split, stage) ==
    IF split = <<>> THEN d
    ELSE AssignStage(DictSet(d, Head(split), stage), Tail(split), stage)

\* for i, stage in enumerate(stages): ...
RECURSIVE AssignStages(_, _, _)
AssignStages(d, splits, i) ==
    IF i > Len(stages) THEN d
    ELSE AssignStages(AssignStage(d, splits[i], stages[i]), splits, i + 1)

\* The whole function: the returned dict and the generator's state afterwards.
ClassifyLcvsEqually(col, s, r) ==
    LET unique_lcvs == UniqueLcvs(col)
        shuffled == RandomShuffle(unique_lcvs, SeededState(s, r))
        lcv_splits == ArraySplit(shuffled.list)
    IN  [classification |-> AssignStages(<<>>, lcv_splits, 1), rng |-> shuffled.rng]

\* stage1_lcvs, stage2_lcvs, stage3_lcvs
StageLcvs(d, stage) == DictKeys(SelectSeq(d, LAMBDA item : item[2] = stage))

\* a dict as a mapping: equality of dicts ignores the insertion order
AsMapping(d) == Range(d)

Columns == SeqsUpTo(Lcvs \cup {NaN}, MaxCol)

----------------------------------------------------------------------------
(* The route table and the selection of rows *)

\* df_filtered_mgs: the rows of the data file for the chosen date and MGS.  Only the
\* columns the allocator reads or compares are kept; DBS and Distance are copied
\* into the record unchanged and never read.  Request 9 has two rows, and two rows
\* have the same Duration.
df_filtered_mgs == <<
    [Request_id |-> 1, Route_id |-> 101, Duration |-> 50],
    [Request_id |-> 2, Route_id |-> 102, Duration |-> 20],
    [Request_id |-> 3, Route_id |-> 103, Duration |-> 70],
    [Request_id |-> 4, Route_id |-> 104, Duration |-> 10],
    [Request_id |-> 5, Route_id |-> 105, Duration |-> 60],
    [Request_id |-> 6, Route_id |-> 106, Duration |-> 30],
    [Request_id |-> 7, Route_id |-> 107, Duration |-> 80],
    [Request_id |-> 8, Route_id |-> 108, Duration |-> 30],
    [Request_id |-> 9, Route_id |-> 109, Duration |-> 90],
    [Request_id |-> 9, Route_id |-> 110, Duration |-> 15] >>

\* df_filtered_mgs['Request_id'].unique()
unique_request_ids == {df_filtered_mgs[i].Request_id : i \in 1..Len(df_filtered_mgs)}

\* df_filtered_mgs[df_filtered_mgs['Request_id'].isin(selected_request_ids)]
SelectedData(selected_request_ids) ==
    SelectSeq(df_filtered_mgs, LAMBDA row : row.Request_id \in selected_request_ids)

----------------------------------------------------------------------------
(* allocate_lcv_to_route *)

Pending == "Pending Re-allocation"
NoLcv == "No LCV Available"
Reallocated == "Re-allocated from another stage"

\* the secondary pass needs more rows than this
SecondaryThreshold == 7

\* DataFrame.sort_values(by='Duration', ascending=...) with the default quicksort,
\* which is not stable: every order of the rows that is sorted on Duration is a
\* possible outcome.  idx is the set of row positions still to be placed.
RECURSIVE SortValuesFrom(_, _, _)
SortValuesFrom(data, idx, ascending) ==
    IF idx = {} THEN {<<>>}
    ELSE LET first == {i \in idx : \A j \in idx :
                          IF ascending THEN data[i].Duration <= data[j].Duration
                                       ELSE data[i].Duration >= data[j].Duration}
         IN  UNION {{<<data[i]>> \o rest : rest \in SortValuesFrom(data, idx \ {i}, ascending)}
                    : i \in first}

SortedRoutesAsc(data) == SortValuesFrom(data, 1..Len(data), TRUE)
SortedRoutesDesc(data) == SortValuesFrom(data, 1..Len(data), FALSE)

\* the dict built at lines 62-70 and filled at lines 71-74
AllocationInfo(route, lcv) ==
    [request_id |-> route.Request_id, Route_id |-> route.Route_id,
     Duration |-> route.Duration, Allocated_LCV |-> lcv, Comment |-> ""]

\* lines 61-76: walk the sorted routes, lcvs_to_allocate.pop(0) while there is one
RECURSIVE PrimaryLoopStops(_, _, _)
PrimaryLoopStops(routes, lcvs_to_allocate, allocations) ==
    IF routes = <<>> \/ lcvs_to_allocate = <<>> THEN allocations
    ELSE PrimaryLoopStops(Tail(routes), Tail(lcvs_to_allocate),
                          Append(allocations,
                                 AllocationInfo(Head(routes), Head(lcvs_to_allocate))))

RECURSIVE PrimaryLoop(_, _, _)
PrimaryLoop(routes, lcvs_to_allocate, allocations) ==
    IF routes = <<>> THEN allocations
    ELSE IF lcvs_to_allocate /= <<>>
         THEN PrimaryLoop(Tail(routes), Tail(lcvs_to_allocate),
                          Append(allocations,
                                 AllocationInfo(Head(routes), Head(lcvs_to_allocate))))
         ELSE PrimaryLoop(Tail(routes), lcvs_to_allocate,
                          Append(allocations, AllocationInfo(Head(routes), Pending)))

\* line 81
UnassignedRoutes(allocations) ==
    SelectSeq(allocations, LAMBDA alloc : alloc.Allocated_LCV = Pending)

\* line 85 (Allocated_LCV is never None after the primary loop)
PrimaryAssignedLcvs(allocations) ==
    [i \in 1..Len(SelectSeq(allocations, LAMBDA alloc : alloc.Allocated_LCV /= Pending))
        |-> SelectSeq(allocations, LAMBDA alloc : alloc.Allocated_LCV /= Pending)[i].Allocated_LCV]

\* lines 87-91: the vehicles of the map, in the map's order, whose stage is not
\* selected_stage_name and which the primary pass did not use
LcvsFromOtherStagesAnyUse(stage_map, stage_name, primary_assigned_lcvs) ==
    DictKeys(SelectSeq(stage_map, LAMBDA item : item[2] /= stage_name))
LcvsFromOtherStages(stage_map, stage_name, primary_assigned_lcvs) ==
    DictKeys(SelectSeq(stage_map,
                       LAMBDA item : /\ item[2] /= stage_name
                                     /\ item[1] \notin Range(primary_assigned_lcvs)))

\* line 94: sorted(unassigned_routes, key=Duration); Python's sorted is stable
RECURSIVE SortedByDuration(_)
SortedByDuration(routes) ==
    IF routes = <<>> THEN <<>>
    ELSE LET front == SortedByDuration(SubSeq(routes, 1, Len(routes) - 1))
             last == routes[Len(routes)]
             keep == SelectSeq(front, LAMBDA r : r.Duration <= last.Duration)
             move == SelectSeq(front, LAMBDA r : r.Duration > last.Duration)
         IN  keep \o <<last>> \o move

\* lines 100-104: the first record of `allocations` with this request_id is updated
UpdateOriginal(allocations, request_id, lcv) ==
    IF \E i \in 1..Len(allocations) : allocations[i].request_id = request_id
    THEN LET first == CHOOSE i \in 1..Len(allocations) :
                         /\ allocations[i].request_id = request_id
                         /\ \A j \in 1..(i - 1) : allocations[j].request_id /= request_id
         IN  [allocations EXCEPT ![first].Allocated_LCV = lcv,
                                 ![first].Comment = Reallocated]
    ELSE allocations

\* lines 96-104
RECURSIVE ReassignLoop(_, _, _)
ReassignLoop(routes_to_reassign, lcvs_from_other_stages, allocations) ==
    IF routes_to_reassign = <<>> THEN allocations
    ELSE IF lcvs_from_other_stages /= <<>>
         THEN ReassignLoop(Tail(routes_to_reassign), Tail(lcvs_from_other_stages),
                           UpdateOriginal(allocations, Head(routes_to_reassign).request_id,
                                          Head(lcvs_from_other_stages)))
         ELSE ReassignLoop(Tail(routes_to_reassign), lcvs_from_other_stages, allocations)

\* line 79
SecondaryTriggerAtLeast(data) == Len(data) >= SecondaryThreshold
SecondaryTrigger(data) == Len(data) > SecondaryThreshold

\* lines 79-104
SecondaryPass(data, allocations, stage_map, stage_name) ==
    IF SecondaryTrigger(data) /\ UnassignedRoutes(allocations) /= <<>>
    THEN ReassignLoop(SortedByDuration(UnassignedRoutes(allocations)),
                      LcvsFromOtherStages(stage_map, stage_name,
                                          PrimaryAssignedLcvs(allocations)),
                      allocations)
    ELSE allocations

\* lines 107-109
FinalCleanup(allocations) ==
    [i \in 1..Len(allocations) |->
        IF allocations[i].Allocated_LCV = Pending
        THEN [allocations[i] EXCEPT !.Allocated_LCV = NoLcv]
        ELSE allocations[i]]

\* lines 57-76 for one outcome of the sort
PrimaryPass(sorted_routes_desc, available) == PrimaryLoop(sorted_routes_desc, available, <<>>)

\* lines 57-111: one returned table for each outcome of the sort
AllocateLcvToRoute(data, available, stage_map, stage_name) ==
    {[primary |-> PrimaryPass(sorted_routes_desc, available),
      result |-> FinalCleanup(SecondaryPass(data, PrimaryPass(sorted_routes_desc, available),
                                            stage_map, stage_name))]
        : sorted_routes_desc \in SortedRoutesDesc(data)}

----------------------------------------------------------------------------
(* The script: stage lists and the stage selectbox *)

\* the keys of stage_options, in order
stage_option_labels == <<"Stage 1: Empty - Waiting Area", "Stage 2: Filling - Safe Zone",
                         "Stage 3: Filled - Waiting Area/Moving to DBS">>

\* the stage whose vehicles stage_options lists under the label
StageOfLabel(label) == stages[CHOOSE i \in 1..3 : stage_option_labels[i] = label]

\* stage_options[selected_stage_name]
StageOptionsAllButLast(d, label) ==
    SubSeq(StageLcvs(d, StageOfLabel(label)), 1, Len(StageLcvs(d, StageOfLabel(label))) - 1)
StageOptions(d, label) == StageLcvs(d, StageOfLabel(label))

----------------------------------------------------------------------------
(* Arguments of a direct call of the allocator *)

\* stage maps over the first k vehicle ids, every id in any stage
StageMaps ==
    UNION {{[i \in 1..k |-> <<LcvNames[i], f[i]>>] : f \in [1..k -> Range(stages)]}
           : k \in 0..MaxMapLcv}

StageNames == Range(stages) \cup Range(stage_option_labels)

----------------------------------------------------------------------------
Init ==
    /\ pc = "idle"
    /\ rng_state \in RngStates
    /\ lcv_ids = <<>>
    /\ seed = NoSeed
    /\ classification = <<>>
    /\ selected_data = <<>>
    /\ available_lcvs_in_stage = <<>>
    /\ all_lcv_stages_classification = <<>>
    /\ selected_stage_name = ""
    /\ primary_allocations = <<>>
    /\ allocation_result = <<>>

\* a call classify_lcvs_equally(lcv_ids, seed) with any column and any seed (or none)
ClassifyCall ==
    /\ pc = "idle"
    /\ \E col \in Columns, s \in Seeds \cup {NoSeed} :
          LET out == ClassifyLcvsEqually(col, s, rng_state)
          IN  /\ lcv_ids' = col
              /\ seed' = s
              /\ classification' = out.classification
              /\ rng_state' = out.rng
    /\ pc' = "classified"
    /\ UNCHANGED allocateVars

\* the caller drops the result; the generator's state stays
Return ==
    /\ pc /= "idle"
    /\ pc' = "idle"
    /\ lcv_ids' = <<>>
    /\ seed' = NoSeed
    /\ classification' = <<>>
    /\ selected_data' = <<>>
    /\ available_lcvs_in_stage' = <<>>
    /\ all_lcv_stages_classification' = <<>>
    /\ selected_stage_name' = ""
    /\ primary_allocations' = <<>>
    /\ allocation_result' = <<>>
    /\ UNCHANGED rng_state

\* a call allocate_lcv_to_route(selected_data, pool, stage map, stage name): any rows
\* selected by Request_id, any stage map, any pool taken from its keys, any stage name
AllocateCall ==
    /\ pc = "idle"
    /\ \E ids \in SUBSET unique_request_ids, stage_map \in StageMaps, name \in StageNames :
       \E available \in SubLists(DictKeys(stage_map)) :
       \E out \in AllocateLcvToRoute(SelectedData(ids), available, stage_map, name) :
          /\ selected_data' = SelectedData(ids)
          /\ available_lcvs_in_stage' = available
          /\ all_lcv_stages_classification' = stage_map
          /\ selected_stage_name' = name
          /\ primary_allocations' = out.primary
          /\ allocation_result' = out.result
    /\ pc' = "allocated"
    /\ UNCHANGED <<rng_state, classifyVars>>

\* lines 137-143 of the script: the lcv_id column of the data file is classified
\* with the ordinal of the selected date as the seed; the script keeps the dict only
AppClassify ==
    /\ pc = "idle"
    /\ \E col \in Columns, date_seed \in Seeds :
          LET out == ClassifyLcvsEqually(col, date_seed, rng_state)
          IN  /\ classification' = out.classification
              /\ rng_state' = out.rng
    /\ pc' = "classified"
    /\ UNCHANGED <<lcv_ids, seed, allocateVars>>

\* lines 146-181 of the same run: some requests are selected, a stage is chosen in
\* the selectbox and the button is pressed
AppAllocate ==
    /\ pc = "classified"
    /\ \E ids \in (SUBSET unique_request_ids) \ {{}}, label \in Range(stage_option_labels) :
       \E out \in AllocateLcvToRoute(SelectedData(ids), StageOptions(classification, label),
                                     classification, label) :
          /\ selected_data' = SelectedData(ids)
          /\ available_lcvs_in_stage' = StageOptions(classification, label)
          /\ all_lcv_stages_classification' = classification
          /\ selected_stage_name' = label
          /\ primary_allocations' = out.primary
          /\ allocation_result' = out.result
    /\ pc' = "allocated"
    /\ UNCHANGED <<rng_state, classifyVars>>

NextAllocate == AllocateCall \/ Return

NextApp == AppClassify \/ AppAllocate \/ Return

\* direct calls of the allocator, which never reads or writes the generator: one
\* of its states stands for all
InitAllocate == Init /\ rng_state = 0

Spec == InitAllocate /\ [][NextAllocate]_vars

\* the script
SpecApp == Init /\ [][NextApp]_vars

NextClassify == ClassifyCall \/ Return

SpecClassify == Init /\ [][NextClassify]_vars

----------------------------------------------------------------------------
(* Properties of allocate_lcv_to_route *)

Min(a, b) == IF a <= b THEN a ELSE b

Records == 1..Len(allocation_result)

\* the records the primary pass left pending, and the vehicles the secondary
\* pass could draw on
PendingRecords == {i \in 1..Len(primary_allocations) : primary_allocations[i].Allocated_LCV = Pending}
CandidatePool ==
    LcvsFromOtherStages(all_lcv_stages_classification, selected_stage_name,
                        PrimaryAssignedLcvs(primary_allocations))
ReallocatedRecords == {i \in Records : allocation_result[i].Comment = Reallocated}

\* C1: in the returned table no vehicle id is the Allocated_LCV of two records,
\* whether bound by the primary or by the secondary pass; only "No LCV Available"
\* may repeat.
C1_VehicleAtMostOnce ==
    pc = "allocated" =>
        \A i, j \in Records :
            (i /= j /\ allocation_result[i].Allocated_LCV = allocation_result[j].Allocated_LCV)
                => allocation_result[i].Allocated_LCV = NoLcv

C1_Witness ==
    /\ pc = "allocated"
    /\ \E i \in ReallocatedRecords : allocation_result[i].Allocated_LCV \in Lcvs
    /\ \E i \in Records : /\ allocation_result[i].Comment = ""
                          /\ allocation_result[i].Allocated_LCV \in Lcvs
    /\ \E i, j \in Records : i /= j /\ allocation_result[i].Allocated_LCV = NoLcv
                                    /\ allocation_result[j].Allocated_LCV = NoLcv

\* C2: the returned table has exactly one record per selected row, whatever the
\* pool size (an empty pool included), and an empty selection gives an empty table.
C2_OneRecordPerRow ==
    pc = "allocated" =>
        /\ Len(allocation_result) = Len(selected_data)
        /\ \A i \in Records : \E j \in 1..Len(selected_data) :
               /\ allocation_result[i].Route_id = selected_data[j].Route_id
               /\ allocation_result[i].request_id = selected_data[j].Request_id
        /\ \A j \in 1..Len(selected_data) : \E i \in Records :
               allocation_result[i].Route_id = selected_data[j].Route_id
        /\ selected_data = <<>> => allocation_result = <<>>

C2_Witness ==
    /\ pc = "allocated"
    /\ Len(selected_data) > SecondaryThreshold
    /\ available_lcvs_in_stage = <<>>
    /\ Len(allocation_result) = Len(selected_data)

\* C3: with more than 7 selected rows (rows may share a Request_id), p records
\* pending after the primary pass and k vehicles in the candidate pool, exactly
\* min(p, k) of the pending records end with a vehicle and the re-allocation comment,
\* they are the min(p, k) pending records of shortest duration, and the other
\* pending records end as "No LCV Available".
C3_SecondaryResolution ==
    (pc = "allocated" /\ Len(selected_data) > SecondaryThreshold) =>
        LET resolved == {i \in PendingRecords :
                            /\ allocation_result[i].Comment = Reallocated
                            /\ allocation_result[i].Allocated_LCV \in Lcvs}
        IN  /\ Cardinality(resolved) = Min(Cardinality(PendingRecords), Len(CandidatePool))
            /\ \A i \in resolved, j \in PendingRecords \ resolved :
                   allocation_result[i].Duration <= allocation_result[j].Duration
            /\ \A j \in PendingRecords \ resolved :
                   allocation_result[j].Allocated_LCV = NoLcv

\* C4: the secondary pass runs exactly when more than 7 rows are selected and a
\* record is pending after the primary pass.  With 7 rows or fewer every record the
\* primary pool did not serve ends as "No LCV Available" with an empty comment,
\* even with idle vehicles in other stages; with 8 rows or more, a pending record
\* and a non-empty candidate pool, some record ends with the re-allocation comment.
C4_SecondaryTrigger ==
    pc = "allocated" =>
        /\ Len(selected_data) <= SecondaryThreshold =>
               /\ ReallocatedRecords = {}
               /\ \A i \in PendingRecords : /\ allocation_result[i].Allocated_LCV = NoLcv
                                            /\ allocation_result[i].Comment = ""
        /\ (Len(selected_data) > SecondaryThreshold /\ PendingRecords /= {}
                /\ CandidatePool /= <<>>) => ReallocatedRecords /= {}
        /\ ReallocatedRecords /= {} =>
               (Len(selected_data) > SecondaryThreshold /\ PendingRecords /= {})

C4_Witness ==
    /\ pc = "allocated"
    /\ Len(selected_data) = SecondaryThreshold
    /\ PendingRecords /= {}
    /\ CandidatePool /= <<>>
    /\ \A i \in PendingRecords : allocation_result[i].Allocated_LCV = NoLcv

\* C5: the primary pass emits the records in duration-descending order and uses the
\* pool first in, first out: the i-th record takes the i-th vehicle of the pool for
\* i <= min(m, n), and every record after position m takes the sentinel (the pending
\* marker after the primary pass; "No LCV Available" in the returned table whenever
\* the secondary pass does not run).
C5_PrimaryOrder ==
    pc = "allocated" =>
        /\ Len(primary_allocations) = Len(selected_data)
        /\ \A i, j \in 1..Len(primary_allocations) :
               i < j => /\ primary_allocations[i].Duration >= primary_allocations[j].Duration
                        /\ allocation_result[i].Duration >= allocation_result[j].Duration
        /\ \A i \in 1..Len(primary_allocations) :
               primary_allocations[i].Allocated_LCV =
                   IF i <= Len(available_lcvs_in_stage) THEN available_lcvs_in_stage[i]
                                                        ELSE Pending
        /\ Len(selected_data) <= SecondaryThreshold =>
               \A i \in Records :
                   allocation_result[i].Allocated_LCV =
                       IF i <= Len(available_lcvs_in_stage) THEN available_lcvs_in_stage[i]
                                                            ELSE NoLcv

C5_Witness ==
    /\ pc = "allocated"
    /\ Len(selected_data) = 3
    /\ Len(available_lcvs_in_stage) = 2
    /\ selected_data[1].Duration < selected_data[2].Duration
    /\ selected_data[2].Duration > selected_data[3].Duration
    /\ allocation_result[1].Allocated_LCV = available_lcvs_in_stage[1]
    /\ allocation_result[2].Allocated_LCV = available_lcvs_in_stage[2]
    /\ allocation_result[3].Allocated_LCV = NoLcv

\* C10: the secondary pass leaves every binding of the primary pass as it is: a
\* record bound to a pool vehicle by the primary pass has the same Allocated_LCV and
\* an empty Comment in the returned table (rows may share a Request_id).
C10_PrimaryBindingsKept ==
    pc = "allocated" =>
        \A i \in Records :
            primary_allocations[i].Allocated_LCV /= Pending =>
                /\ allocation_result[i].Allocated_LCV = primary_allocations[i].Allocated_LCV
                /\ allocation_result[i].Comment = ""

----------------------------------------------------------------------------
(* Properties of the script's use of the allocator *)

\* C9: in the script (the pool is the full list of the vehicles classified into the
\* chosen stage, the stage name is the selectbox label) every vehicle bound by the
\* secondary pass has a classified stage other than the chosen one and was not
\* bound to any route by the primary pass.
C9_SecondaryVehiclesFromOtherStages ==
    pc = "allocated" =>
        \A i \in ReallocatedRecords :
            /\ DictHas(all_lcv_stages_classification, allocation_result[i].Allocated_LCV)
            /\ DictGet(all_lcv_stages_classification, allocation_result[i].Allocated_LCV)
                   /= StageOfLabel(selected_stage_name)
            /\ allocation_result[i].Allocated_LCV
                   \notin Range(PrimaryAssignedLcvs(primary_allocations))

C9_Witness ==
    /\ pc = "allocated"
    /\ available_lcvs_in_stage /= <<>>
    /\ Cardinality(ReallocatedRecords) >= 2
    /\ \E i \in Records : allocation_result[i].Allocated_LCV = NoLcv

----------------------------------------------------------------------------
(* Properties of classify_lcvs_equally *)

NonNull(col) == Range(col) \ {NaN}

\* the columns with the same distinct non-null ids in the same order of first
\* appearance, and those with the same set of non-null ids
ColumnsOfUnique == [u \in {UniqueLcvs(c) : c \in Columns} |-> {c \in Columns : UniqueLcvs(c) = u}]
ColumnsOfSet == [S \in SUBSET Lcvs |-> {c \in Columns : NonNull(c) = S}]

StageSizes == [i \in 1..3 |-> Len(StageLcvs(classification, stages[i]))]

\* C6 as stated: a call with the same seed and any column holding the same set of
\* distinct non-null ids, in whatever row order and multiplicity, returns the same
\* vehicle-to-stage mapping.
C6_SameSetSameMapping ==
    (pc = "classified" /\ seed /= NoSeed) =>
        \A col \in ColumnsOfSet[NonNull(lcv_ids)] :
            AsMapping(ClassifyLcvsEqually(col, seed, rng_state).classification)
                = AsMapping(classification)

\* C6 as amended: a call with the same seed and any column whose distinct non-null
\* ids appear for the first time in the same order, whatever the multiplicity of an
\* id and wherever the nulls are, returns the same vehicle-to-stage mapping,
\* whatever the state the generator was left in.
C6_SameOrderSameMapping ==
    (pc = "classified" /\ seed /= NoSeed) =>
        \A col \in ColumnsOfUnique[UniqueLcvs(lcv_ids)] :
            AsMapping(ClassifyLcvsEqually(col, seed, rng_state).classification)
                = AsMapping(classification)

C6_Witness ==
    /\ pc = "classified"
    /\ seed /= NoSeed
    /\ Len(UniqueLcvs(lcv_ids)) = 3
    /\ Len(lcv_ids) = 3
    /\ \E col \in ColumnsOfUnique[UniqueLcvs(lcv_ids)] :
          /\ Len(col) = 4
          /\ AsMapping(ClassifyLcvsEqually(col, seed, rng_state).classification)
                 = AsMapping(classification)
    /\ DictKeys(classification) /= UniqueLcvs(lcv_ids)

\* C7: the keys of the returned mapping are exactly the distinct non-null ids of the
\* column, each key has one of the three stages, and the three stage lists are
\* pairwise disjoint with the deduplicated non-null ids as their union.
C7_Partition ==
    pc = "classified" =>
        /\ Range(DictKeys(classification)) = NonNull(lcv_ids)
        /\ Len(classification) = Cardinality(NonNull(lcv_ids))
        /\ \A i \in 1..Len(classification) : classification[i][2] \in Range(stages)
        /\ \A i, j \in 1..3 :
               i /= j => Range(StageLcvs(classification, stages[i]))
                            \cap Range(StageLcvs(classification, stages[j])) = {}
        /\ UNION {Range(StageLcvs(classification, stages[i])) : i \in 1..3} = NonNull(lcv_ids)
        /\ StageSizes[1] + StageSizes[2] + StageSizes[3] = Cardinality(NonNull(lcv_ids))

C7_Witness ==
    /\ pc = "classified"
    /\ NaN \in Range(lcv_ids)
    /\ Len(lcv_ids) > Cardinality(Range(lcv_ids))
    /\ Cardinality(NonNull(lcv_ids)) = 2
    /\ Range(DictKeys(classification)) = NonNull(lcv_ids)

\* C8: for n distinct non-null ids the sizes of the three stage lists differ by at
\* most one and add up to n; with n = 0 the three lists are empty.
C8_Balance ==
    pc = "classified" =>
        /\ \A i, j \in 1..3 : StageSizes[i] - StageSizes[j] <= 1
        /\ StageSizes[1] + StageSizes[2] + StageSizes[3] = Cardinality(NonNull(lcv_ids))
        /\ NonNull(lcv_ids) = {} => classification = <<>>

C8_Witness ==
    /\ pc = "classified"
    /\ Cardinality(NonNull(lcv_ids)) = 4
    /\ StageSizes = <<2, 1, 1>>

====
